---- MODULE Spec2Model ----
(***************************************************************************)
(* Model of bw6/src/prover.rs: the accountable-APK prover (Prover::new,    *)
(* Prover::prove) together with the domain layer, the session              *)
(* preprocessor and the test of the shift identity.                        *)
(*                                                                         *)
(* The scalar field Fr of BW6-761 (which is also the coordinate field of   *)
(* BLS12-377) is replaced by the prime field of FrModulus elements; the    *)
(* inner curve keeps its equation y^2 = x^3 + 1.  Over that field the      *)
(* curve has 84 = 12 * 7 points: G1 is the subgroup of order 7 and the     *)
(* complement point h lies outside of it.                                  *)
(***************************************************************************)
EXTENDS Integers, Sequences, FiniteSets, TLC

(***************************************************************************)
(* Field arithmetic (ark_ff::Field for Fr)                                 *)
(***************************************************************************)
FrModulus == 97

\* the primitive 16th root of unity from which the radix-2 domains are built
TwoAdicRoot == 8

\* the largest radix-2 subgroup used by the model (4 * the largest domain)
TwoAdicSize == 16

FAdd(a, b) == (a + b) % FrModulus
FSub(a, b) == (a - b) % FrModulus
FMul(a, b) == (a * b) % FrModulus
FNeg(a) == (0 - a) % FrModulus

RECURSIVE FPow(_, _)
FPow(a, e) ==
    IF e = 0 THEN 1
    ELSE LET half == FPow(a, e \div 2)
             sq == FMul(half, half)
         IN  IF e % 2 = 1 THEN FMul(sq, a) ELSE sq

FInv(a) == FPow(a, FrModulus - 2)

\* a vector given by a function on 1..n, as the tuple of its elements
Vec(f) == f \o <<>>

(***************************************************************************)
(* The inner curve: ark_bls12_377::G1Affine = GroupAffine {x, y, infinity} *)
(***************************************************************************)
CurveB == 1

GroupAffine(px, py, inf) == [x |-> px, y |-> py, infinity |-> inf]

\* GroupAffine::zero()
G1Zero == GroupAffine(0, 1, TRUE)

IsOnCurve(pt) ==
    pt.infinity \/ FMul(pt.y, pt.y) = FAdd(FMul(pt.x, FMul(pt.x, pt.x)), CurveB)

ECNeg(pt) == IF pt.infinity THEN pt ELSE GroupAffine(pt.x, FNeg(pt.y), FALSE)

\* Add for GroupAffine: conversion to projective, mixed addition, conversion
\* back; a complete addition (doubling and inverse points are handled)
ECAdd(p1, p2) ==
    IF p1.infinity THEN p2
    ELSE IF p2.infinity THEN p1
    ELSE IF p1.x = p2.x /\ FAdd(p1.y, p2.y) = 0 THEN G1Zero
    ELSE LET lambda == IF p1.x = p2.x
                       THEN FMul(FMul(3, FMul(p1.x, p1.x)), FInv(FMul(2, p1.y)))
                       ELSE FMul(FSub(p2.y, p1.y), FInv(FSub(p2.x, p1.x)))
             x3 == FSub(FSub(FMul(lambda, lambda), p1.x), p2.x)
             y3 == FSub(FMul(lambda, FSub(p1.x, x3)), p1.y)
         IN  GroupAffine(x3, y3, FALSE)

RECURSIVE ECMul(_, _)
ECMul(k, pt) == IF k = 0 THEN G1Zero ELSE ECAdd(ECMul(k - 1, pt), pt)

\* order of the prime-order subgroup G1 of the model curve
G1Order == 7

InG1(pt) == IsOnCurve(pt) /\ ECMul(G1Order, pt) = G1Zero

\* point_in_g1_complement(): a fixed curve point outside of G1
point_in_g1_complement == GroupAffine(10, 15, FALSE)

(***************************************************************************)
(* Polynomials (DensePolynomial: coefficient vectors without trailing      *)
(* zeros, <<>> is the zero polynomial) and evaluation domains              *)
(***************************************************************************)
RECURSIVE truncate_leading_zeros(_)
truncate_leading_zeros(c) ==
    IF Len(c) > 0 /\ c[Len(c)] = 0
    THEN truncate_leading_zeros(SubSeq(c, 1, Len(c) - 1))
    ELSE c

from_coefficients_vec(c) == truncate_leading_zeros(c)

\* DensePolynomial::degree(): 0 for the zero polynomial
degree(poly) == IF Len(poly) = 0 THEN 0 ELSE Len(poly) - 1

\* resize that pads with the default value instead of the given one
resize_with_default(v, n, fill) ==
    Vec([i \in 1..n |-> IF i <= Len(v) THEN v[i] ELSE 0])

\* Vec::resize_with(n, || fill): pads or truncates
resize_with(v, n, fill) == Vec([i \in 1..n |-> IF i <= Len(v) THEN v[i] ELSE fill])

\* rotation to the right instead of to the left
rotate_right(v) == Vec([i \in 1..Len(v) |-> v[((i + Len(v) - 2) % Len(v)) + 1]])

\* slice::rotate_left(1)
rotate_left(v) == Vec([i \in 1..Len(v) |-> v[(i % Len(v)) + 1]])

\* Horner evaluation of c[1] + c[2] X + ... at x, from coefficient k upwards
RECURSIVE Horner(_, _, _)
Horner(c, k, x) ==
    IF k > Len(c) THEN 0 ELSE FAdd(c[k], FMul(x, Horner(c, k + 1, x)))

\* DensePolynomial::evaluate
evaluate(poly, x) == Horner(poly, 1, x)

is_power_of_two(k) == k \in {1, 2, 4, 8, 16}

\* Radix2EvaluationDomain::new(size).group_gen
group_gen(size) == FPow(TwoAdicRoot, TwoAdicSize \div size)
group_gen_inv(size) == FInv(group_gen(size))

\* Evaluations::interpolate: inverse DFT on the domain of the given size,
\* after ifft_in_place resized the evaluations to the domain size
interpolate(evals, size) ==
    LET e == resize_with(evals, size, 0)
        winv == group_gen_inv(size)
        ninv == FInv(size % FrModulus)
    IN  from_coefficients_vec(
            Vec([k \in 1..size |-> FMul(ninv, Horner(e, 1, FPow(winv, k - 1)))]))

\* DensePolynomial::evaluate_over_domain
evaluate_over_domain(poly, size) ==
    LET w == group_gen(size)
    IN  Vec([i \in 1..size |-> Horner(poly, 1, FPow(w, i - 1))])

\* Evaluations arithmetic: pointwise on vectors over the same domain
EvAdd(u, v) == Vec([i \in 1..Len(u) |-> FAdd(u[i], v[i])])
EvSub(u, v) == Vec([i \in 1..Len(u) |-> FSub(u[i], v[i])])
EvMul(u, v) == Vec([i \in 1..Len(u) |-> FMul(u[i], v[i])])

\* DensePolynomial addition and subtraction (results are truncated)
PolyCoeff(poly, i) == IF i <= Len(poly) THEN poly[i] ELSE 0
PolyMax(a, b) == IF a >= b THEN a ELSE b
PolyAdd(u, v) ==
    from_coefficients_vec(
        Vec([i \in 1..PolyMax(Len(u), Len(v)) |->
                FAdd(PolyCoeff(u, i), PolyCoeff(v, i))]))
PolySub(u, v) ==
    from_coefficients_vec(
        Vec([i \in 1..PolyMax(Len(u), Len(v)) |->
                FSub(PolyCoeff(u, i), PolyCoeff(v, i))]))

\* fn mul(s, p): the polynomial s * p
mul(s, poly) ==
    from_coefficients_vec(Vec([i \in 1..Len(poly) |-> FMul(s, poly[i])]))

\* fn mul_by_x(p): the polynomial X * p
mul_by_x(poly) == from_coefficients_vec(<<0>> \o poly)

\* fn add_constant(p, c, d): c + p pointwise on the evaluations
add_constant(evals, c) == Vec([i \in 1..Len(evals) |-> FAdd(c, evals[i])])

\* sum of the coefficients of poly at positions k, k + size, k + 2 size, ...
RECURSIVE FoldCoeffs(_, _, _)
FoldCoeffs(poly, k, size) ==
    IF k > Len(poly) THEN 0 ELSE FAdd(poly[k], FoldCoeffs(poly, k + size, size))

\* DensePolynomial::divide_by_vanishing_poly(domain): <<quotient, remainder>>
\* of the division by X^size - 1
divide_by_vanishing_poly(poly, size) ==
    IF Len(poly) <= size
    THEN <<(<<>>), poly>>
    ELSE <<from_coefficients_vec(
               Vec([k \in 1..(Len(poly) - size) |->
                       FoldCoeffs(poly, k + size, size)])),
           from_coefficients_vec(
               Vec([k \in 1..size |-> FoldCoeffs(poly, k, size)]))>>

(***************************************************************************)
(* The Fiat-Shamir transcript (crate::transcript::ApkTranscript over       *)
(* merlin::Transcript): the sequence of operations applied to it.  Values  *)
(* are encoded as numbers; a challenge is a digest of everything that      *)
(* precedes it.                                                            *)
(***************************************************************************)
Absorb(lbl, val) == [op |-> "append", label |-> lbl, value |-> val]
Squeeze(lbl) == [op |-> "challenge", label |-> lbl, value |-> 0]

EncodePoint(pt) ==
    pt.x + FrModulus * pt.y + FrModulus * FrModulus * (IF pt.infinity THEN 1 ELSE 0)

RECURSIVE EncodeBits(_, _)
EncodeBits(bits, k) ==
    IF k > Len(bits) THEN 1
    ELSE (IF bits[k] THEN 1 ELSE 0) + 2 * EncodeBits(bits, k + 1)

RECURSIVE TranscriptDigest(_, _)
TranscriptDigest(log, k) ==
    IF k = 0 THEN 1
    ELSE (31 * TranscriptDigest(log, k - 1) + 7 * log[k].value + k
          + (IF log[k].op = "challenge" THEN 3 ELSE 0)) % FrModulus

set_signer_set(transcript, signer_set_comm) ==
    Append(transcript, Absorb("signer_set", signer_set_comm))

append_public_input(transcript, apk, bitmask) ==
    Append(transcript,
           Absorb("public_input",
                  EncodePoint(apk) + 2 * FrModulus * FrModulus * EncodeBits(bitmask, 1)))

append_proof_point(transcript, lbl, comm) == Append(transcript, Absorb(lbl, comm))

append_proof_scalar(transcript, lbl, scalar) == Append(transcript, Absorb(lbl, scalar))

\* get_128_bit_challenge: <<the transcript after the challenge, the challenge>>
get_128_bit_challenge(transcript, lbl) ==
    LET after == Append(transcript, Squeeze(lbl))
    IN  <<after, TranscriptDigest(after, Len(after))>>

(***************************************************************************)
(* The polynomial commitment scheme (crate::kzg): a prover key is its      *)
(* capacity; a commitment to p is p evaluated at the trapdoor.             *)
(***************************************************************************)
KzgTrapdoor == 5

ProverKey(d) == [max_degree |-> d]
max_degree(pk) == pk.max_degree
max_coeffs(pk) == pk.max_degree + 1

KZG_commit(pk, poly) == evaluate(poly, KzgTrapdoor)

KZG_open(pk, poly, point) ==
    FMul(FSub(evaluate(poly, KzgTrapdoor), evaluate(poly, point)),
         FInv(FSub(KzgTrapdoor, point)))

(***************************************************************************)
(* Domains                                                                 *)
(***************************************************************************)
\* Domains::li(i, domain_size), i counted from 0
li(i, domain_size) == Vec([k \in 1..domain_size |-> IF k = i + 1 THEN 1 ELSE 0])

first_lagrange_basis_polynomial(domain_size) == li(0, domain_size)

last_lagrange_basis_polynomial(domain_size) == li(domain_size - 1, domain_size)

\* Domains::_amplify
amplify(evals, domain, domain4x) ==
    evaluate_over_domain(interpolate(evals, domain), domain4x)

\* Domains::new: a domain is represented by its size
Domains_new(domain_size) ==
    [domain |-> domain_size,
     domain4x |-> 4 * domain_size,
     l1 |-> amplify(first_lagrange_basis_polynomial(domain_size),
                    domain_size, 4 * domain_size),
     ln |-> amplify(last_lagrange_basis_polynomial(domain_size),
                    domain_size, 4 * domain_size)]

(***************************************************************************)
(* Session                                                                 *)
(***************************************************************************)
\* Session::new
Session_new(pks, domains) ==
    LET pks_x == Vec([i \in 1..Len(pks) |-> pks[i].x])
        pks_y == Vec([i \in 1..Len(pks) |-> pks[i].y])
        x_poly == interpolate(pks_x, domains.domain)
        y_poly == interpolate(pks_y, domains.domain)
    IN  [pks |-> pks,
         pks_x_poly |-> x_poly,
         pks_y_poly |-> y_poly,
         pks_x_poly_evals_x4 |-> evaluate_over_domain(x_poly, domains.domain4x),
         pks_y_poly_evals_x4 |-> evaluate_over_domain(y_poly, domains.domain4x)]

\* Session::compute_apk: the sum of the keys whose bit is set (zip stops at
\* the shorter of the two)
RECURSIVE SumSelected(_, _, _)
SumSelected(bitmask, pks, k) ==
    IF k = 0 THEN G1Zero
    ELSE LET rest == SumSelected(bitmask, pks, k - 1)
         IN  IF bitmask[k] THEN ECAdd(rest, pks[k]) ELSE rest

compute_apk(session, bitmask) ==
    SumSelected(bitmask, session.pks,
                IF Len(bitmask) <= Len(session.pks) THEN Len(bitmask)
                ELSE Len(session.pks))

(***************************************************************************)
(* State                                                                   *)
(***************************************************************************)
VARIABLES
    config,      \* the threads that call prove and what Prover::new draws on
    prover,      \* the Prover: params, domains, session, preprocessed_transcript
    frames,      \* per thread: the locals of its call of Prover::prove
    shift_test   \* the locals of tests::test_shift

vars == <<config, prover, frames, shift_test>>

(***************************************************************************)
(* Inputs                                                                  *)
(***************************************************************************)
\* the largest signer set, and the longest bitmask, that is tried
MaxM == 2

\* two public keys in G1
pk_a == GroupAffine(60, 46, FALSE)
pk_b == GroupAffine(63, 51, FALSE)

\* keys of a well-formed signer set
ValidKeys == {pk_a, pk_b}

\* any curve point can be wrapped in a PublicKey: also h itself and -h, the
\* two points whose addition to acc[0] = h is exceptional
AnyKeys == ValidKeys \cup {point_in_g1_complement, ECNeg(point_in_g1_complement)}

SignerSets(keys) == UNION {[1..m -> keys] : m \in 0..MaxM}

Bitmasks == UNION {[1..k -> BOOLEAN] : k \in 0..MaxM}

DomainSizes == {2, 3, 4}

ProverKeys == {ProverKey(1), ProverKey(3), ProverKey(9)}

\* the signer-set commitment: an opaque value derived from the key list
RECURSIVE SignerSetCommitment(_)
SignerSetCommitment(pks) ==
    IF Len(pks) = 0 THEN 1
    ELSE (3 * SignerSetCommitment(SubSeq(pks, 1, Len(pks) - 1))
          + EncodePoint(pks[Len(pks)])) % FrModulus

\* Transcript::new: nothing absorbed
empty_transcript == <<>>

(***************************************************************************)
(* Prover::new                                                             *)
(***************************************************************************)
Prover_new(domain_size, kzg_pk, signer_set_comm, pks, transcript) ==
    IF ~is_power_of_two(domain_size)
    THEN [status |-> "panicked", reason |-> "domain size should be a power of 2"]
    ELSE IF ~(domain_size <= max_coeffs(kzg_pk))
    THEN [status |-> "panicked", reason |-> "domain size shouldn't exceed srs length"]
    ELSE LET domains == Domains_new(domain_size)
         IN  [status |-> "ready",
              params |-> [domain_size |-> domain_size,
                          kzg_pk |-> kzg_pk,
                          h |-> point_in_g1_complement],
              domains |-> domains,
              session |-> Session_new(pks, domains),
              preprocessed_transcript |-> set_signer_set(transcript, signer_set_comm)]

New(domain_size, kzg_pk, pks) ==
    /\ prover.status = "uninit"
    /\ prover' = Prover_new(domain_size, kzg_pk, SignerSetCommitment(pks), pks,
                            empty_transcript)
    /\ UNCHANGED <<config, frames, shift_test>>

(***************************************************************************)
(* Prover::prove, one action per phase.  frames[t] holds the locals.       *)
(***************************************************************************)
IdleFrame ==
    [pc |-> "idle", panic |-> "", bitmask |-> <<>>, apk |-> G1Zero,
     transcript |-> <<>>, acc |-> <<>>, acc_x |-> <<>>, acc_y |-> <<>>,
     b |-> <<>>, apk_plus_h_x |-> 0, apk_plus_h_y |-> 0,
     acc_x_shifted |-> <<>>, acc_y_shifted |-> <<>>,
     b_poly |-> <<>>, acc_x_poly |-> <<>>, acc_y_poly |-> <<>>,
     commitments |-> <<>>,
     a1 |-> <<>>, a2 |-> <<>>, a3 |-> <<>>, a4 |-> <<>>, a5 |-> <<>>,
     a1_poly |-> <<>>, a2_poly |-> <<>>, a3_poly |-> <<>>, a4_poly |-> <<>>,
     a5_poly |-> <<>>,
     phi |-> 0, q_poly |-> <<>>, zeta |-> 0, zeta_omega |-> 0,
     evaluations |-> <<>>, nu |-> 0, returned |-> <<>>]

Panic(t, why) == frames' = [frames EXCEPT ![t].pc = "panicked", ![t].panic = why]

\* pub fn prove(&self, b: &Bitmask): the call
Prove(t, bitmask) ==
    /\ prover.status = "ready"
    /\ frames[t].pc = "idle"
    /\ frames' = [frames EXCEPT ![t] = [IdleFrame EXCEPT !.pc = "validate",
                                                        !.bitmask = bitmask]]
    /\ UNCHANGED <<config, prover, shift_test>>

\* Bitmask::count_ones
RECURSIVE count_ones(_, _)
count_ones(bits, k) ==
    IF k = 0 THEN 0 ELSE count_ones(bits, k - 1) + (IF bits[k] THEN 1 ELSE 0)

\* the assertion on the size alone
validate_bitmask_size_only(bitmask, m) ==
    IF Len(bitmask) # m THEN "b.size() == m" ELSE ""

\* the two assertions on the bitmask: "" when both pass
validate_bitmask(bitmask, m) ==
    IF Len(bitmask) # m THEN "b.size() == m"
    ELSE IF ~(count_ones(bitmask, Len(bitmask)) > 0) THEN "b.count_ones() > 0"
    ELSE ""

ValidateBitmask(t) ==
    /\ frames[t].pc = "validate"
    /\ LET why == validate_bitmask(frames[t].bitmask, Len(prover.session.pks))
       IN  IF why # "" THEN Panic(t, why)
           ELSE frames' = [frames EXCEPT ![t].pc = "public_input"]
    /\ UNCHANGED <<config, prover, shift_test>>

\* prove appending to the prover's transcript itself instead of a clone
preprocessed_transcript_shared(preprocessed, working) == working

\* prove appends to a clone of self.preprocessed_transcript: what the
\* prover's own transcript is after the working transcript absorbed something
preprocessed_transcript_after(preprocessed, working) == preprocessed

PublicInput(t) ==
    /\ frames[t].pc = "public_input"
    /\ LET apk == compute_apk(prover.session, frames[t].bitmask)
           transcript == append_public_input(prover.preprocessed_transcript, apk,
                                             frames[t].bitmask)
       IN  /\ frames' = [frames EXCEPT ![t].pc = "accumulate",
                                       ![t].apk = apk,
                                       ![t].transcript = transcript]
           /\ prover' = [prover EXCEPT !.preprocessed_transcript =
                            preprocessed_transcript_after(@, transcript)]
    /\ UNCHANGED <<config, shift_test>>

\* one iteration of the accumulator loop: acc[i + 1] from acc[i]
acc_next(acc_i, bit, pk) == IF bit THEN ECAdd(acc_i, pk) ELSE acc_i

\* acc after the loop ran over the first k (bit, key) pairs
RECURSIVE acc_loop(_, _, _, _)
acc_loop(h, bits, pks, k) ==
    IF k = 0 THEN Vec([i \in 1..(Len(pks) + 1) |-> h])
    ELSE LET acc == acc_loop(h, bits, pks, k - 1)
         IN  [acc EXCEPT ![k + 1] = acc_next(acc[k], bits[k], pks[k])]

Accumulate(t) ==
    /\ frames[t].pc = "accumulate"
    /\ LET m == Len(prover.session.pks)
           h == prover.params.h
           bits == frames[t].bitmask
           acc == acc_loop(h, bits, prover.session.pks,
                           IF Len(bits) <= m THEN Len(bits) ELSE m)
           acc_x == Vec([i \in 1..Len(acc) |-> acc[i].x])
           acc_y == Vec([i \in 1..Len(acc) |-> acc[i].y])
       IN  IF GroupAffine(acc_x[1], acc_y[1], FALSE) # h
           THEN Panic(t, "acc[0] == h")
           ELSE IF GroupAffine(acc_x[m + 1], acc_y[m + 1], FALSE)
                       # ECAdd(frames[t].apk, h)
           THEN Panic(t, "acc[m] == apk + h")
           ELSE frames' = [frames EXCEPT ![t].pc = "extend",
                                         ![t].acc = acc,
                                         ![t].acc_x = acc_x,
                                         ![t].acc_y = acc_y]
    /\ UNCHANGED <<config, prover, shift_test>>

\* "Extend the computation to the whole domain"
Extend(t) ==
    /\ frames[t].pc = "extend"
    /\ LET m == Len(prover.session.pks)
           n == prover.params.domain_size
           b == resize_with(Vec([i \in 1..Len(frames[t].bitmask) |->
                                    IF frames[t].bitmask[i] THEN 1 ELSE 0]), n, 0)
           apk_plus_h_x == frames[t].acc_x[m + 1]
           apk_plus_h_y == frames[t].acc_y[m + 1]
           acc_x == resize_with(frames[t].acc_x, n, apk_plus_h_x)
           acc_y == resize_with(frames[t].acc_y, n, apk_plus_h_y)
       IN  frames' = [frames EXCEPT ![t].pc = "commit",
                                    ![t].b = b,
                                    ![t].apk_plus_h_x = apk_plus_h_x,
                                    ![t].apk_plus_h_y = apk_plus_h_y,
                                    ![t].acc_x = acc_x,
                                    ![t].acc_y = acc_y,
                                    ![t].acc_x_shifted = rotate_left(acc_x),
                                    ![t].acc_y_shifted = rotate_left(acc_y)]
    /\ UNCHANGED <<config, prover, shift_test>>

\* interpolation and commitment of the trace polynomials
CommitTrace(t) ==
    /\ frames[t].pc = "commit"
    /\ LET n == prover.params.domain_size
           b_poly == interpolate(frames[t].b, prover.domains.domain)
           acc_x_poly == interpolate(frames[t].acc_x, prover.domains.domain)
           acc_y_poly == interpolate(frames[t].acc_y, prover.domains.domain)
           comms == <<KZG_commit(prover.params.kzg_pk, b_poly),
                      KZG_commit(prover.params.kzg_pk, acc_x_poly),
                      KZG_commit(prover.params.kzg_pk, acc_y_poly)>>
           done == [frames EXCEPT ![t].b_poly = b_poly,
                                  ![t].acc_x_poly = acc_x_poly,
                                  ![t].acc_y_poly = acc_y_poly,
                                  ![t].commitments = comms]
       IN  IF Len(b_poly) # n
           THEN frames' = [done EXCEPT ![t].pc = "panicked",
                                       ![t].panic = "b_poly.coeffs.len() == n"]
           ELSE IF degree(b_poly) # n - 1
           THEN frames' = [done EXCEPT ![t].pc = "panicked",
                                       ![t].panic = "b_poly.degree() == n - 1"]
           ELSE frames' = [done EXCEPT ![t].pc = "constraints"]
    /\ UNCHANGED <<config, prover, shift_test>>

\* the conditional affine addition identities, bit booleanity and the
\* boundary conditions, in evaluation form over the 4n domain
constraint_a1(B, nB, x1, y1, x2, y2, x3, y3) ==
    EvAdd(EvMul(B, EvSub(EvMul(EvMul(EvSub(x1, x2), EvSub(x1, x2)),
                               EvAdd(EvAdd(x1, x2), x3)),
                         EvMul(EvSub(y2, y1), EvSub(y2, y1)))),
          EvMul(nB, EvSub(y3, y1)))

\* a2 with y3 - y1 in the place of y3 + y1
constraint_a2_wrong_sign(B, nB, x1, y1, x2, y2, x3, y3) ==
    EvAdd(EvMul(B, EvSub(EvMul(EvSub(x1, x2), EvSub(y3, y1)),
                         EvMul(EvSub(y2, y1), EvSub(x3, x1)))),
          EvMul(nB, EvSub(x3, x1)))

constraint_a2(B, nB, x1, y1, x2, y2, x3, y3) ==
    EvAdd(EvMul(B, EvSub(EvMul(EvSub(x1, x2), EvAdd(y3, y1)),
                         EvMul(EvSub(y2, y1), EvSub(x3, x1)))),
          EvMul(nB, EvSub(x3, x1)))

constraint_a3(B, nB) == EvMul(B, nB)

\* a4 (with the x coordinates) and a5 (with the y coordinates)
constraint_boundary(c1, h_c, apk_plus_h_c, l1, ln) ==
    EvAdd(EvMul(add_constant(c1, FNeg(h_c)), l1),
          EvMul(add_constant(c1, FNeg(apk_plus_h_c)), ln))

Constraints(t) ==
    /\ frames[t].pc = "constraints"
    /\ LET d == prover.domains
           B == evaluate_over_domain(frames[t].b_poly, d.domain4x)
           x1 == evaluate_over_domain(frames[t].acc_x_poly, d.domain4x)
           y1 == evaluate_over_domain(frames[t].acc_y_poly, d.domain4x)
           x2 == prover.session.pks_x_poly_evals_x4
           y2 == prover.session.pks_y_poly_evals_x4
           x3 == amplify(frames[t].acc_x_shifted, d.domain, d.domain4x)
           y3 == amplify(frames[t].acc_y_shifted, d.domain, d.domain4x)
           nB == Vec([i \in 1..Len(B) |-> FSub(1, B[i])])
       IN  frames' = [frames EXCEPT
               ![t].pc = "check_constraints",
               ![t].a1 = constraint_a1(B, nB, x1, y1, x2, y2, x3, y3),
               ![t].a2 = constraint_a2(B, nB, x1, y1, x2, y2, x3, y3),
               ![t].a3 = constraint_a3(B, nB),
               ![t].a4 = constraint_boundary(x1, prover.params.h.x,
                                             frames[t].apk_plus_h_x, d.l1, d.ln),
               ![t].a5 = constraint_boundary(y1, prover.params.h.y,
                                             frames[t].apk_plus_h_y, d.l1, d.ln)]
    /\ UNCHANGED <<config, prover, shift_test>>

\* X * p - omega^{-1} * p: the "skip the last row" factor
skip_last_row(poly, domain) ==
    PolySub(mul_by_x(poly), mul(group_gen_inv(domain), poly))

Remainder(poly, domain) == divide_by_vanishing_poly(poly, domain)[2]

\* the degree and divisibility assertions on a1 .. a5: "" when all pass
check_constraints(n, domain, a1_poly, a2_poly, a3_poly, a4_poly, a5_poly) ==
    IF degree(a1_poly) # 4 * (n - 1) THEN "a1_poly.degree() == 4 * (n - 1)"
    ELSE IF degree(a2_poly) # 3 * (n - 1) THEN "a2_poly.degree() == 3 * (n - 1)"
    ELSE IF degree(a3_poly) # 2 * (n - 1) THEN "a3_poly.degree() == 2 * (n - 1)"
    ELSE IF degree(a4_poly) # 2 * (n - 1) THEN "a4_poly.degree() == 2 * (n - 1)"
    ELSE IF degree(a5_poly) # 2 * (n - 1) THEN "a5_poly.degree() == 2 * (n - 1)"
    ELSE IF Remainder(skip_last_row(a1_poly, domain), domain) # <<>>
    THEN "a1_poly_ divisible"
    ELSE IF Remainder(skip_last_row(a2_poly, domain), domain) # <<>>
    THEN "a2_poly_ divisible"
    ELSE IF Remainder(a3_poly, domain) # <<>> THEN "a3_poly divisible"
    ELSE IF Remainder(a4_poly, domain) # <<>> THEN "a4_poly divisible"
    ELSE IF Remainder(a5_poly, domain) # <<>> THEN "a5_poly divisible"
    ELSE ""

CheckConstraints(t) ==
    /\ frames[t].pc = "check_constraints"
    /\ LET d == prover.domains
           a1_poly == interpolate(frames[t].a1, d.domain4x)
           a2_poly == interpolate(frames[t].a2, d.domain4x)
           a3_poly == interpolate(frames[t].a3, d.domain4x)
           a4_poly == interpolate(frames[t].a4, d.domain4x)
           a5_poly == interpolate(frames[t].a5, d.domain4x)
           why == check_constraints(prover.params.domain_size, d.domain,
                                    a1_poly, a2_poly, a3_poly, a4_poly, a5_poly)
           done == [frames EXCEPT ![t].a1_poly = a1_poly,
                                  ![t].a2_poly = a2_poly,
                                  ![t].a3_poly = a3_poly,
                                  ![t].a4_poly = a4_poly,
                                  ![t].a5_poly = a5_poly]
       IN  IF why # ""
           THEN frames' = [done EXCEPT ![t].pc = "panicked", ![t].panic = why]
           ELSE frames' = [done EXCEPT ![t].pc = "round1"]
    /\ UNCHANGED <<config, prover, shift_test>>

\* round 1 of the transcript: <<transcript, phi>>
round1(transcript, b_comm, acc_x_comm, acc_y_comm) ==
    get_128_bit_challenge(
        append_proof_point(
            append_proof_point(
                append_proof_point(transcript, "b_comm", b_comm),
                "acc_x_comm", acc_x_comm),
            "acc_y_comm", acc_y_comm),
        "phi")

Round1(t) ==
    /\ frames[t].pc = "round1"
    /\ LET r == round1(frames[t].transcript, frames[t].commitments[1],
                       frames[t].commitments[2], frames[t].commitments[3])
       IN  frames' = [frames EXCEPT ![t].pc = "quotient",
                                    ![t].transcript = r[1],
                                    ![t].phi = r[2]]
    /\ UNCHANGED <<config, prover, shift_test>>

\* w = (a1 + phi a2) (X - omega^{-1}) + phi^2 a3 + phi^3 a4 + phi^4 a5
batched_w(phi, domain, a1_poly, a2_poly, a3_poly, a4_poly, a5_poly) ==
    LET phi2 == FMul(phi, phi)
        phi3 == FMul(phi2, phi)
        phi4 == FMul(phi3, phi)
        w0 == skip_last_row(PolyAdd(a1_poly, mul(phi, a2_poly)), domain)
    IN  PolyAdd(PolyAdd(PolyAdd(w0, mul(phi2, a3_poly)), mul(phi3, a4_poly)),
                mul(phi4, a5_poly))

\* the assertions on the quotient and on the prover key: "" when all pass
check_quotient(n, kzg_pk, q_poly, r) ==
    IF r # <<>> THEN "r == 0"
    ELSE IF degree(q_poly) # 3 * n - 3 THEN "q_poly.degree() == 3 * n - 3"
    ELSE IF max_degree(kzg_pk) # degree(q_poly)
    THEN "kzg_pk.max_degree() == q_poly.degree()"
    ELSE ""

Quotient(t) ==
    /\ frames[t].pc = "quotient"
    /\ LET f == frames[t]
           w == batched_w(f.phi, prover.domains.domain, f.a1_poly, f.a2_poly,
                          f.a3_poly, f.a4_poly, f.a5_poly)
           qr == divide_by_vanishing_poly(w, prover.domains.domain)
           why == check_quotient(prover.params.domain_size, prover.params.kzg_pk,
                                 qr[1], qr[2])
       IN  IF why # ""
           THEN frames' = [frames EXCEPT ![t].pc = "panicked",
                                         ![t].panic = why,
                                         ![t].q_poly = qr[1]]
           ELSE frames' = [frames EXCEPT
                   ![t].pc = "round2",
                   ![t].q_poly = qr[1],
                   ![t].commitments =
                       Append(@, KZG_commit(prover.params.kzg_pk, qr[1]))]
    /\ UNCHANGED <<config, prover, shift_test>>

\* round 2 with zeta squeezed before q_comm is absorbed
round2_challenge_first(transcript, q_comm) ==
    LET r == get_128_bit_challenge(transcript, "zeta")
    IN  <<append_proof_point(r[1], "q_comm", q_comm), r[2]>>

\* round 2 of the transcript: <<transcript, zeta>>
round2(transcript, q_comm) ==
    get_128_bit_challenge(append_proof_point(transcript, "q_comm", q_comm), "zeta")

Round2(t) ==
    /\ frames[t].pc = "round2"
    /\ LET r == round2(frames[t].transcript, frames[t].commitments[4])
       IN  frames' = [frames EXCEPT ![t].pc = "evaluate",
                                    ![t].transcript = r[1],
                                    ![t].zeta = r[2]]
    /\ UNCHANGED <<config, prover, shift_test>>

\* the eight evaluations at zeta and zeta * omega
Evaluate(t) ==
    /\ frames[t].pc = "evaluate"
    /\ LET f == frames[t]
           zeta == f.zeta
           zeta_omega == FMul(zeta, group_gen(prover.domains.domain))
       IN  frames' = [frames EXCEPT
               ![t].pc = "round3",
               ![t].zeta_omega = zeta_omega,
               ![t].evaluations =
                   [b_zeta |-> evaluate(f.b_poly, zeta),
                    pks_x_zeta |-> evaluate(prover.session.pks_x_poly, zeta),
                    pks_y_zeta |-> evaluate(prover.session.pks_y_poly, zeta),
                    acc_x_zeta |-> evaluate(f.acc_x_poly, zeta),
                    acc_y_zeta |-> evaluate(f.acc_y_poly, zeta),
                    q_zeta |-> evaluate(f.q_poly, zeta),
                    acc_x_zeta_omega |-> evaluate(f.acc_x_poly, zeta_omega),
                    acc_y_zeta_omega |-> evaluate(f.acc_y_poly, zeta_omega)]]
    /\ UNCHANGED <<config, prover, shift_test>>

\* round 3 of the transcript: <<transcript, nu>>
round3(transcript, e) ==
    LET t1 == append_proof_scalar(transcript, "b_zeta", e.b_zeta)
        t2 == append_proof_scalar(t1, "pks_x_zeta", e.pks_x_zeta)
        t3 == append_proof_scalar(t2, "pks_y_zeta", e.pks_y_zeta)
        t4 == append_proof_scalar(t3, "acc_x_zeta", e.acc_x_zeta)
        t5 == append_proof_scalar(t4, "acc_y_zeta", e.acc_y_zeta)
        t6 == append_proof_scalar(t5, "q_zeta", e.q_zeta)
        t7 == append_proof_scalar(t6, "acc_x_zeta_omega", e.acc_x_zeta_omega)
        t8 == append_proof_scalar(t7, "acc_y_zeta_omega", e.acc_y_zeta_omega)
    IN  get_128_bit_challenge(t8, "nu")

Round3(t) ==
    /\ frames[t].pc = "round3"
    /\ LET r == round3(frames[t].transcript, frames[t].evaluations)
       IN  frames' = [frames EXCEPT ![t].pc = "open",
                                    ![t].transcript = r[1],
                                    ![t].nu = r[2]]
    /\ UNCHANGED <<config, prover, shift_test>>

\* the two batched openings and the Proof that prove returns
Open(t) ==
    /\ frames[t].pc = "open"
    /\ LET f == frames[t]
           pk == prover.params.kzg_pk
           nu == f.nu
           nu2 == FMul(nu, nu)
           nu3 == FMul(nu2, nu)
           nu4 == FMul(nu3, nu)
           w2 == PolyAdd(f.acc_x_poly, mul(nu, f.acc_y_poly))
           w1 == PolyAdd(PolyAdd(PolyAdd(
                     PolyAdd(prover.session.pks_x_poly,
                             mul(nu, prover.session.pks_y_poly)),
                     mul(nu2, f.b_poly)),
                     mul(nu3, f.q_poly)),
                     mul(nu4, w2))
           proof == [b_comm |-> f.commitments[1],
                     acc_x_comm |-> f.commitments[2],
                     acc_y_comm |-> f.commitments[3],
                     q_comm |-> f.commitments[4],
                     b_zeta |-> f.evaluations.b_zeta,
                     pks_x_zeta |-> f.evaluations.pks_x_zeta,
                     pks_y_zeta |-> f.evaluations.pks_y_zeta,
                     acc_x_zeta |-> f.evaluations.acc_x_zeta,
                     acc_y_zeta |-> f.evaluations.acc_y_zeta,
                     q_zeta |-> f.evaluations.q_zeta,
                     acc_x_zeta_omega |-> f.evaluations.acc_x_zeta_omega,
                     acc_y_zeta_omega |-> f.evaluations.acc_y_zeta_omega,
                     w1_proof |-> KZG_open(pk, w1, f.zeta),
                     w2_proof |-> KZG_open(pk, w2, f.zeta_omega)]
       IN  frames' = [frames EXCEPT ![t].pc = "returned", ![t].returned = <<proof>>]
    /\ UNCHANGED <<config, prover, shift_test>>

\* the caller is done with the outcome of the call (a Proof or a panic) and
\* the thread is free to call prove again
Finish(t) ==
    /\ frames[t].pc \in {"returned", "panicked"}
    /\ frames' = [frames EXCEPT ![t] = IdleFrame]
    /\ UNCHANGED <<config, prover, shift_test>>

(***************************************************************************)
(* tests::test_shift                                                       *)
(***************************************************************************)
\* the field elements the random evaluations are drawn from
SampleScalars == {0, 1, 5, 96}

\* the field elements the random point x is drawn from
SamplePoints == {0, 1, 2, 22, 50, 96}

\* the domain sizes the test is run with (the source fixes n = 2)
ShiftDomainSizes == {2, 4}

NoShiftTest ==
    [pc |-> "off", n |-> 0, p_evals |-> <<>>, p_evals_shifted |-> <<>>,
     p |-> <<>>, p_shifted |-> <<>>, x |-> 0]

\* let mut p_evals_shifted = p_evals.clone(); p_evals_shifted.rotate_left(1)
TestShiftRotate ==
    /\ shift_test.pc = "rotate"
    /\ shift_test' = [shift_test EXCEPT
           !.pc = "interpolate",
           !.p_evals_shifted = rotate_left(shift_test.p_evals)]
    /\ UNCHANGED <<config, prover, frames>>

TestShiftInterpolate ==
    /\ shift_test.pc = "interpolate"
    /\ shift_test' = [shift_test EXCEPT
           !.pc = "assert",
           !.p = interpolate(shift_test.p_evals, shift_test.n),
           !.p_shifted = interpolate(shift_test.p_evals_shifted, shift_test.n)]
    /\ UNCHANGED <<config, prover, frames>>

\* the two assert_eq! of the test, the second at the random point x
TestShiftAssert ==
    /\ shift_test.pc = "assert"
    /\ LET omega == group_gen(shift_test.n)
           ok1 == evaluate(shift_test.p, omega) = evaluate(shift_test.p_shifted, 1)
           ok2 == evaluate(shift_test.p, FMul(shift_test.x, omega))
                      = evaluate(shift_test.p_shifted, shift_test.x)
       IN  shift_test' = [shift_test EXCEPT
               !.pc = IF ok1 /\ ok2 THEN "passed" ELSE "failed"]
    /\ UNCHANGED <<config, prover, frames>>

(***************************************************************************)
(* Specifications                                                          *)
(***************************************************************************)
Threads == {1, 2}

NoProver == [status |-> "uninit"]

\* one thread calls prove, signer sets over any curve points
Init ==
    /\ config = [threads |-> {1}, keys |-> AnyKeys,
                 domain_sizes |-> DomainSizes, prover_keys |-> ProverKeys]
    /\ prover = NoProver
    /\ frames = [t \in Threads |-> IdleFrame]
    /\ shift_test = NoShiftTest

\* two threads share by reference a prover for a well-formed signer set,
\* with the domain size and the prover key under which prove can return
InitConc ==
    /\ config = [threads |-> Threads, keys |-> {pk_a},
                 domain_sizes |-> {4}, prover_keys |-> {ProverKey(9)}]
    /\ prover = NoProver
    /\ frames = [t \in Threads |-> IdleFrame]
    /\ shift_test = NoShiftTest

InitShift ==
    /\ config = [threads |-> {}, keys |-> {},
                 domain_sizes |-> {}, prover_keys |-> {}]
    /\ prover = NoProver
    /\ frames = [t \in Threads |-> IdleFrame]
    /\ \E n \in ShiftDomainSizes :
       \E p_evals \in [1..n -> SampleScalars] :
       \E x \in SamplePoints :
           shift_test = [NoShiftTest EXCEPT !.pc = "rotate", !.n = n,
                                            !.p_evals = p_evals, !.x = x]

Next ==
    \/ \E domain_size \in config.domain_sizes :
       \E kzg_pk \in config.prover_keys :
       \E pks \in SignerSets(config.keys) : New(domain_size, kzg_pk, pks)
    \/ \E t \in config.threads :
          \/ \E bitmask \in Bitmasks : Prove(t, bitmask)
          \/ ValidateBitmask(t)
          \/ PublicInput(t)
          \/ Accumulate(t)
          \/ Extend(t)
          \/ CommitTrace(t)
          \/ Constraints(t)
          \/ CheckConstraints(t)
          \/ Round1(t)
          \/ Quotient(t)
          \/ Round2(t)
          \/ Evaluate(t)
          \/ Round3(t)
          \/ Open(t)
          \/ Finish(t)

NextShift == TestShiftRotate \/ TestShiftInterpolate \/ TestShiftAssert

Spec == Init /\ [][Next]_vars

SpecConc == InitConc /\ [][Next]_vars

SpecShift == InitShift /\ [][NextShift]_vars

(***************************************************************************)
(* Properties                                                              *)
(***************************************************************************)
Ready == prover.status = "ready"

\* the number m of signer keys and the domain size n of the prover
NumKeys == Len(prover.session.pks)
DomainSize == prover.params.domain_size

\* the bitmask of the call has the size of the signer set and a set bit
BitmaskAccepted(t) ==
    /\ Len(frames[t].bitmask) = NumKeys
    /\ \E i \in 1..Len(frames[t].bitmask) : frames[t].bitmask[i]

\* the signer set is a list of BLS public keys: finite points of G1
WellFormedSignerSet ==
    \A i \in 1..NumKeys :
        ~prover.session.pks[i].infinity /\ InG1(prover.session.pks[i])

\* what thread t's working transcript holds after the preprocessed part
OwnEvents(t) ==
    SubSeq(frames[t].transcript, Len(prover.preprocessed_transcript) + 1,
           Len(frames[t].transcript))

ProtocolOrder ==
    << <<"append", "public_input">>,
       <<"append", "b_comm">>, <<"append", "acc_x_comm">>,
       <<"append", "acc_y_comm">>, <<"challenge", "phi">>,
       <<"append", "q_comm">>, <<"challenge", "zeta">>,
       <<"append", "b_zeta">>, <<"append", "pks_x_zeta">>,
       <<"append", "pks_y_zeta">>, <<"append", "acc_x_zeta">>,
       <<"append", "acc_y_zeta">>, <<"append", "q_zeta">>,
       <<"append", "acc_x_zeta_omega">>, <<"append", "acc_y_zeta_omega">>,
       <<"challenge", "nu">> >>

\* C1: the working transcript of a call is, after the preprocessed part, at
\* every moment a prefix of the protocol's order of events (public input;
\* b_comm, acc_x_comm, acc_y_comm; phi; q_comm; zeta; the eight evaluations;
\* nu), and the whole of it, carrying the values of the Proof, once prove
\* has returned: each challenge follows everything it binds.
C1_TranscriptOrder ==
    \A t \in Threads :
        frames[t].transcript # <<>> =>
            LET own == OwnEvents(t)
                f == frames[t]
            IN  /\ SubSeq(f.transcript, 1, Len(prover.preprocessed_transcript))
                       = prover.preprocessed_transcript
                /\ Len(own) <= Len(ProtocolOrder)
                /\ \A i \in 1..Len(own) :
                       <<own[i].op, own[i].label>> = ProtocolOrder[i]
                /\ f.pc = "returned" =>
                       LET proof == f.returned[1]
                       IN  /\ Len(own) = Len(ProtocolOrder)
                           /\ <<own[2].value, own[3].value, own[4].value>>
                                  = <<proof.b_comm, proof.acc_x_comm,
                                      proof.acc_y_comm>>
                           /\ f.phi = TranscriptDigest(f.transcript,
                                  Len(prover.preprocessed_transcript) + 5)
                           /\ own[6].value = proof.q_comm
                           /\ f.zeta = TranscriptDigest(f.transcript,
                                  Len(prover.preprocessed_transcript) + 7)
                           /\ <<own[8].value, own[9].value, own[10].value,
                                own[11].value, own[12].value, own[13].value,
                                own[14].value, own[15].value>>
                                  = <<proof.b_zeta, proof.pks_x_zeta,
                                      proof.pks_y_zeta, proof.acc_x_zeta,
                                      proof.acc_y_zeta, proof.q_zeta,
                                      proof.acc_x_zeta_omega,
                                      proof.acc_y_zeta_omega>>
                           /\ f.nu = TranscriptDigest(f.transcript,
                                  Len(f.transcript))

\* a call returned a Proof
C1_Witness ==
    \E t \in Threads :
        /\ frames[t].pc = "returned"
        /\ Len(OwnEvents(t)) = Len(ProtocolOrder)

\* C2: the preprocessed transcript of a constructed Prover has absorbed the
\* protocol parameters and then the signer-set commitment, and so has every
\* working transcript before the public input.
C2_PreprocessedTranscript ==
    /\ Ready =>
           /\ Len(prover.preprocessed_transcript) = 2
           /\ prover.preprocessed_transcript[1].op = "append"
           /\ prover.preprocessed_transcript[1].label = "protocol_params"
           /\ prover.preprocessed_transcript[2].op = "append"
           /\ prover.preprocessed_transcript[2].label = "signer_set"
    /\ \A t \in Threads :
           frames[t].transcript # <<>> =>
               /\ Len(frames[t].transcript) >= 3
               /\ frames[t].transcript[1].label = "protocol_params"
               /\ frames[t].transcript[2].label = "signer_set"
               /\ frames[t].transcript[3].label = "public_input"

\* C3: prove leaves the Prover as Prover::new made it, whatever calls were
\* made and however they interleave, and two calls that return a Proof for
\* the same bitmask return the same Proof.
C3_ProveIsDeterministic ==
    /\ Ready =>
           prover = Prover_new(prover.params.domain_size, prover.params.kzg_pk,
                               SignerSetCommitment(prover.session.pks),
                               prover.session.pks, empty_transcript)
    /\ \A t1, t2 \in Threads :
           /\ frames[t1].pc = "returned"
           /\ frames[t2].pc = "returned"
           /\ frames[t1].bitmask = frames[t2].bitmask
           => frames[t1].returned = frames[t2].returned

\* two calls on the same bitmask have both returned a Proof
C3_Witness ==
    /\ frames[1].pc = "returned"
    /\ frames[2].pc = "returned"
    /\ frames[1].bitmask = frames[2].bitmask

\* the trace has been extended to the whole domain
Extended(t) == frames[t].acc_x_shifted # <<>>

\* C4: for n >= m + 1 the accumulator trace starts at h, adds P[i] at step i
\* exactly when b[i] is set, reaches h + apk at index m, and is padded up to
\* n with acc[m] while b is padded with 0, so that apk = acc[n - 1] - h.
C4_AccumulatorTrace ==
    \A t \in Threads :
        Extended(t) /\ DomainSize >= NumKeys + 1 =>
            LET f == frames[t]
                m == NumKeys
                n == DomainSize
                h == prover.params.h
                pks == prover.session.pks
                last == GroupAffine(f.acc_x[n], f.acc_y[n], FALSE)
            IN  /\ Len(f.acc) = m + 1
                /\ Len(f.acc_x) = n /\ Len(f.acc_y) = n /\ Len(f.b) = n
                /\ f.acc[1] = h
                /\ \A i \in 1..m :
                       /\ f.bitmask[i] => f.acc[i + 1] = ECAdd(f.acc[i], pks[i])
                       /\ ~f.bitmask[i] => f.acc[i + 1] = f.acc[i]
                       /\ f.b[i] = IF f.bitmask[i] THEN 1 ELSE 0
                /\ f.apk = SumSelected(f.bitmask, pks, m)
                /\ f.acc[m + 1] = ECAdd(h, f.apk)
                /\ \A i \in 1..(m + 1) :
                       <<f.acc_x[i], f.acc_y[i]>> = <<f.acc[i].x, f.acc[i].y>>
                /\ \A i \in (m + 1)..n :
                       <<f.acc_x[i], f.acc_y[i]>> = <<f.acc[m + 1].x, f.acc[m + 1].y>>
                /\ \A i \in (m + 1)..n : f.b[i] = 0
                /\ last = ECAdd(h, f.apk)
                /\ ECAdd(last, ECNeg(h)) = f.apk

\* a trace with a cleared bit, a set bit and a padded row
C4_Witness ==
    \E t \in Threads :
        /\ Extended(t)
        /\ DomainSize >= NumKeys + 2
        /\ \E i, j \in 1..NumKeys : frames[t].bitmask[i] /\ ~frames[t].bitmask[j]

\* the value of a 4n-evaluation vector at index i of the size-n domain
AtDomainIndex(evals, i) == evals[4 * i + 1]

DivisibilityPanics ==
    {"a1_poly_ divisible", "a2_poly_ divisible", "a3_poly divisible",
     "a4_poly divisible", "a5_poly divisible", "r == 0"}

\* C5: for a well-formed signer set, an accepted bitmask and n >= m + 1,
\* a3, a4 and a5 vanish at every index of the size-n domain and a1, a2 at
\* every index but the last, and neither a divisibility assertion nor the
\* zero-remainder assertion on w fires.
C5_ConstraintsVanish ==
    \A t \in Threads :
        /\ frames[t].pc # "idle"
        /\ WellFormedSignerSet
        /\ BitmaskAccepted(t)
        /\ DomainSize >= NumKeys + 1
        => /\ frames[t].panic \notin DivisibilityPanics
           /\ frames[t].a1 # <<>> =>
                  LET f == frames[t]
                      n == DomainSize
                  IN  /\ \A i \in 0..(n - 1) :
                             /\ AtDomainIndex(f.a3, i) = 0
                             /\ AtDomainIndex(f.a4, i) = 0
                             /\ AtDomainIndex(f.a5, i) = 0
                      /\ \A i \in 0..(n - 2) :
                             /\ AtDomainIndex(f.a1, i) = 0
                             /\ AtDomainIndex(f.a2, i) = 0
           /\ frames[t].q_poly # <<>> =>
                  Remainder(batched_w(frames[t].phi, prover.domains.domain,
                                      frames[t].a1_poly, frames[t].a2_poly,
                                      frames[t].a3_poly, frames[t].a4_poly,
                                      frames[t].a5_poly),
                            prover.domains.domain) = <<>>

\* a well-formed call with padded rows passed every divisibility assertion
C5_Witness ==
    \E t \in Threads :
        /\ frames[t].pc = "returned"
        /\ WellFormedSignerSet
        /\ DomainSize >= NumKeys + 2
        /\ \E i, j \in 1..NumKeys : frames[t].bitmask[i] /\ ~frames[t].bitmask[j]

\* C6: a call whose bitmask has not the size of the signer set, or has no
\* set bit, panics on the bitmask assertion with nothing absorbed into a
\* transcript, no commitment computed and no Proof returned.
C6_BitmaskRejected ==
    \A t \in Threads :
        frames[t].pc \notin {"idle", "validate"} /\ ~BitmaskAccepted(t) =>
            /\ frames[t].pc = "panicked"
            /\ frames[t].panic =
                   IF Len(frames[t].bitmask) # NumKeys THEN "b.size() == m"
                   ELSE "b.count_ones() > 0"
            /\ frames[t].transcript = <<>>
            /\ frames[t].commitments = <<>>
            /\ frames[t].returned = <<>>
            /\ Len(prover.preprocessed_transcript) = 1

\* a call with a bitmask of the right size and no set bit has panicked
C6_Witness ==
    \E t \in Threads :
        /\ frames[t].pc = "panicked"
        /\ Len(frames[t].bitmask) = NumKeys
        /\ NumKeys > 0
        /\ frames[t].panic = "b.count_ones() > 0"

\* C7: a constructed Prover has a power-of-two domain size and a prover key
\* for polynomials of degree up to 3n - 3, so no call of prove panics on the
\* capacity of the prover key.
C7_CapacityCheckedAtConstruction ==
    Ready =>
        /\ is_power_of_two(DomainSize)
        /\ \A t \in Threads :
               frames[t].panic # "kzg_pk.max_degree() == q_poly.degree()"

\* step i of the accumulator loop adds P[i] to a point with the same x
ExceptionalAddition(t) ==
    \E i \in 1..NumKeys :
        /\ frames[t].bitmask[i]
        /\ ~frames[t].acc[i].infinity
        /\ ~prover.session.pks[i].infinity
        /\ frames[t].acc[i].x = prover.session.pks[i].x

\* C8: no Proof is returned by a call in which some step of the accumulator
\* loop added P[i] to an accumulator point with the same x-coordinate.
C8_ExceptionalAdditionFails ==
    \A t \in Threads :
        frames[t].pc = "returned" => ~ExceptionalAddition(t)

DegreePanics ==
    {"b_poly.coeffs.len() == n", "b_poly.degree() == n - 1",
     "a1_poly.degree() == 4 * (n - 1)", "a2_poly.degree() == 3 * (n - 1)",
     "a3_poly.degree() == 2 * (n - 1)", "a4_poly.degree() == 2 * (n - 1)",
     "a5_poly.degree() == 2 * (n - 1)", "q_poly.degree() == 3 * n - 3"}

\* C9: for a well-formed signer set of m <= n - 1 keys and an accepted
\* bitmask, no degree assertion of prove fires.
C9_DegreesAsAsserted ==
    \A t \in Threads :
        /\ frames[t].pc # "idle"
        /\ WellFormedSignerSet
        /\ BitmaskAccepted(t)
        /\ NumKeys <= DomainSize - 1
        => frames[t].panic \notin DegreePanics

\* C10: the interpolant p of p_evals and the interpolant p_shifted of
\* p_evals rotated left by one satisfy p(x * omega) = p_shifted(x) at every
\* field element x, and the assertions of the test pass.
C10_ShiftIdentity ==
    /\ shift_test.pc # "failed"
    /\ shift_test.pc \in {"assert", "passed", "failed"} =>
           \A x \in 0..(FrModulus - 1) :
               evaluate(shift_test.p, FMul(x, group_gen(shift_test.n)))
                   = evaluate(shift_test.p_shifted, x)

\* the test passed on a size-4 domain for evaluations that are not constant
C10_Witness ==
    /\ shift_test.pc = "passed"
    /\ shift_test.n = 4
    /\ degree(shift_test.p) = 3
    /\ shift_test.p # shift_test.p_shifted

====
